---------------------------- MODULE Spec2Model ----------------------------
(***************************************************************************)
(* A model of pyprudens/classes.py: PrudensLiteral, to_prudens_literal     *)
(* (with its functools.cache memo), PrudensRule and PrudensKnowledgeBase.  *)
(*                                                                         *)
(* A Python str is a sequence of one-character strings, so that strip,     *)
(* split, join, replace and "in" are computed character by character as    *)
(* CPython computes them.  A raised exception is the "err" field of the    *)
(* result of a call.                                                       *)
(***************************************************************************)
EXTENDS Integers, Sequences, FiniteSets, TLC

VARIABLES self, memo, op, arg, ret, nmut

vars == <<self, memo, op, arg, ret, nmut>>

(***************************************************************************)
(* Bounds of the exploration.                                              *)
(***************************************************************************)
\* longest rule sequence of a knowledge base
MaxRules == 2
\* largest integer passed as a rule name
MaxName == 11
\* number of in-place modifications callers make to returned dicts
MaxMut == 1

(***************************************************************************)
(* str                                                                     *)
(***************************************************************************)
\* the characters str.strip() / lstrip() / rstrip() remove by default
\* (those of them that occur in the inputs explored)
Whitespace == {" ", "\n", "\t"}

Digits == <<"0", "1", "2", "3", "4", "5", "6", "7", "8", "9">>

\* the characters of the inputs, in code point order
CodePoints ==
    <<"\t", "\n", " ", ",", "-", "0", "1", "2", "3", "4", "5", "6", "7",
      "8", "9", ":", ";", "@", "A", "B", "K", "R", "a", "b", "c", "d", "e",
      "g", "h", "i", "k", "l", "m", "n", "o", "p", "r", "s", "t", "u", "w",
      "x", "y", "z">>

ord(c) == CHOOSE i \in 1..Len(CodePoints) : CodePoints[i] = c

\* str.lower() of one character
lower_char(c) == CASE c = "A" -> "a" [] c = "B" -> "b" [] c = "K" -> "k"
                   [] c = "R" -> "r" [] OTHER -> c

lower(s) == [i \in 1..Len(s) |-> lower_char(s[i])]

\* s[i:], 1-based
Tail_from(s, i) == SubSeq(s, i, Len(s))

\* s.startswith(p)
startswith(s, p) == Len(p) <= Len(s) /\ SubSeq(s, 1, Len(p)) = p

\* s.find(sub), 1-based, 0 when absent
find(s, sub) ==
    LET hits == {i \in 1..(Len(s) - Len(sub) + 1) :
                    SubSeq(s, i, i + Len(sub) - 1) = sub}
    IN  IF hits = {} THEN 0
        ELSE CHOOSE i \in hits : \A j \in hits : i <= j

\* sub in s
contains(s, sub) == find(s, sub) # 0

\* s.lstrip(chars): the longest prefix made of characters of chars is removed
lstrip(s, chars) ==
    LET keep == {i \in 1..Len(s) : s[i] \notin chars}
    IN  IF keep = {} THEN <<>>
        ELSE Tail_from(s, CHOOSE i \in keep : \A j \in keep : i <= j)

\* s.rstrip(chars)
rstrip(s, chars) ==
    LET keep == {i \in 1..Len(s) : s[i] \notin chars}
    IN  IF keep = {} THEN <<>>
        ELSE SubSeq(s, 1, CHOOSE i \in keep : \A j \in keep : i >= j)

\* s.strip()
strip(s) == lstrip(rstrip(s, Whitespace), Whitespace)

\* s.replace(old, new) for a one-character old
replace(s, old, new) ==
    LET F[i \in 0..Len(s)] ==
            IF i = 0 THEN <<>>
            ELSE F[i - 1] \o (IF s[i] = old THEN new ELSE <<s[i]>>)
    IN  F[Len(s)]

\* s.split(sep) for a non-empty sep: leftmost, non-overlapping occurrences
RECURSIVE split(_, _)
split(s, sep) ==
    LET j == find(s, sep)
    IN  IF j = 0 THEN <<s>>
        ELSE <<SubSeq(s, 1, j - 1)>> \o split(Tail_from(s, j + Len(sep)), sep)

\* sep.join(parts)
RECURSIVE join(_, _)
join(sep, parts) ==
    IF parts = <<>> THEN <<>>
    ELSE IF Len(parts) = 1 THEN parts[1]
    ELSE parts[1] \o sep \o join(sep, Tail(parts))

\* str(n) for an int
RECURSIVE str_nat(_)
str_nat(n) ==
    IF n < 10 THEN <<Digits[n + 1]>>
    ELSE str_nat(n \div 10) \o <<Digits[(n % 10) + 1]>>

str_int(n) == IF n < 0 THEN <<"-">> \o str_nat(0 - n) ELSE str_nat(n)

\* int(s) for a run of decimal digits
RECURSIVE int_of(_)
int_of(s) ==
    IF s = <<>> THEN 0
    ELSE 10 * int_of(SubSeq(s, 1, Len(s) - 1))
         + ((CHOOSE d \in 1..10 : Digits[d] = s[Len(s)]) - 1)

isdigit_char(c) == \E d \in 1..10 : Digits[d] = c

(***************************************************************************)
(* The literal strings of the source.                                      *)
(***************************************************************************)
RuleSep == <<" ", ":", ":", " ">>
ImpliesSep == <<" ", "i", "m", "p", "l", "i", "e", "s", " ">>
BodySep == <<",", " ">>
Marker == <<"@", "K", "n", "o", "w", "l", "e", "d", "g", "e", "B", "a", "s", "e">>
NL == <<"\n">>
TrueTok == <<"t", "r", "u", "e">>
EmptyTok == <<"e", "m", "p", "t", "y">>

(***************************************************************************)
(* PrudensLiteral and to_prudens_literal                                   *)
(***************************************************************************)
\* PrudensLiteral.to_string
PrudensLiteral_to_string(lit) ==
    (IF ~lit.sign THEN <<"-">> ELSE <<>>) \o lit.name

\* the body of to_prudens_literal: the dict built on a cache miss
to_prudens_literal_uncached(lit) ==
    [name |-> lstrip(lit, {"-"}),
     sign |-> ~contains(lit, <<"-">>),
     isJS |-> FALSE,
     isEquality |-> FALSE,
     isInequality |-> FALSE,
     isAction |-> FALSE,
     arity |-> 0]


\* to_prudens_literal under @cache: a hit returns the dict object stored for
\* lit, a miss stores the dict just built.  memo maps each cached argument to
\* the current contents of its dict object.
memo_after(m, lit) ==
    IF lit \in DOMAIN m THEN m
    ELSE [t \in DOMAIN m \cup {lit} |->
            IF t = lit THEN to_prudens_literal_uncached(lit) ELSE m[t]]

RECURSIVE memo_after_all(_, _)
memo_after_all(m, lits) ==
    IF lits = <<>> THEN m
    ELSE memo_after_all(memo_after(m, Head(lits)), Tail(lits))

to_prudens_literal(m, lit) == memo_after(m, lit)[lit]

(***************************************************************************)
(* Results of calls                                                        *)
(***************************************************************************)
Return(v) == [err |-> "None", msg |-> "", val |-> v]
Raise(e, m) == [err |-> e, msg |-> m, val |-> <<>>]

(***************************************************************************)
(* PrudensRule                                                             *)
(***************************************************************************)
PrudensRule(body, head, added_as, active) ==
    [cls |-> "PrudensRule", body |-> body, head |-> head,
     added_as |-> added_as, active |-> active]

\* the rule_name argument of to_string: None, an int or a str
NoneName == [type |-> "NoneType"]
IntName(i) == [type |-> "int", int |-> i]
StrName(s) == [type |-> "str", str |-> s]

\* a rendering that joins the body with "," alone
PrudensRule_body_join_comma_only(body) == join(<<",">>, body)

\* ", ".join(self.body)
PrudensRule_body_join(body) == join(BodySep, body)

PrudensRule_to_string(rule, rule_name) ==
    LET name == IF rule_name.type = "NoneType" THEN <<"R">>
                ELSE IF rule_name.type = "int"
                     THEN <<"R">> \o str_int(rule_name.int)
                ELSE rule_name.str
    IN  join(<<" ">>,
             <<name,
               <<":", ":">>,
               PrudensRule_body_join(rule.body),
               <<"i", "m", "p", "l", "i", "e", "s">>,
               rule.head \o <<";">>
             >>)

\* the statement with its surrounding whitespace and trailing ";" removed
PrudensRule_statement(rule_string) == rstrip(strip(rule_string), {";"})

PrudensRule_from_string(rule_string, added_as, active) ==
    IF ~(contains(rule_string, RuleSep) /\ contains(rule_string, ImpliesSep))
    THEN Raise("AssertionError", "")
    ELSE LET parts == split(PrudensRule_statement(rule_string), RuleSep)
         IN  IF Len(parts) < 2 THEN Raise("IndexError", "")
             ELSE LET ch == split(parts[2], ImpliesSep)
                  IN  IF Len(ch) # 2 THEN Raise("ValueError", "")
                      ELSE Return(PrudensRule(split(ch[1], BodySep),
                                              strip(ch[2]), added_as, active))

Range(seq) == {seq[i] : i \in 1..Len(seq)}

\* PrudensRule.__eq__
PrudensRule_eq(rule, obj) ==
    /\ obj.cls = "PrudensRule"
    /\ Range(rule.body) = Range(obj.body)
    /\ rule.head = obj.head

\* PrudensRule.__hash__ as dataclass(frozen=True) generates it: the hash of
\* the tuple of all fields.  The tuple stands for its hash value.
PrudensRule_hash(rule) ==
    <<rule.body, rule.head, rule.added_as, rule.active>>

\* len(set(objs)): a set merges two elements when their hashes agree and
\* they compare equal
RECURSIVE set_len(_)
set_len(objs) ==
    IF objs = <<>> THEN 0
    ELSE LET rest == Tail(objs)
             dup == \E i \in 1..Len(rest) :
                       /\ PrudensRule_hash(rest[i]) = PrudensRule_hash(Head(objs))
                       /\ PrudensRule_eq(rest[i], Head(objs))
         IN  set_len(rest) + (IF dup THEN 0 ELSE 1)

(***************************************************************************)
(* PrudensKnowledgeBase                                                    *)
(***************************************************************************)
PrudensKnowledgeBase(rules) ==
    [cls |-> "PrudensKnowledgeBase", rules |-> rules]

\* the positions i of enumerate(self.rules, start=1) that pass "if rule.active"
active_positions(rules) ==
    SelectSeq([i \in 1..Len(rules) |-> i], LAMBDA i : rules[i].active)

number_of_active_rules(kb) == Len(active_positions(kb.rules))

\* re.split(r"(\d+)", s): text, digit run, text, digit run, ..., text
RECURSIVE nsre_split(_)
nsre_split(s) ==
    LET ds == {i \in 1..Len(s) : isdigit_char(s[i])}
    IN  IF ds = {} THEN <<s>>
        ELSE LET i == CHOOSE x \in ds : \A y \in ds : x <= y
                 j == CHOOSE x \in i..Len(s) :
                        /\ \A y \in i..x : isdigit_char(s[y])
                        /\ x = Len(s) \/ ~isdigit_char(s[x + 1])
             IN  <<SubSeq(s, 1, i - 1), SubSeq(s, i, j)>>
                 \o nsre_split(Tail_from(s, j + 1))

\* t.isdigit()
isdigit(t) == t # <<>> /\ \A i \in 1..Len(t) : isdigit_char(t[i])

natural_sort_key(s) ==
    LET parts == nsre_split(s)
    IN  [k \in 1..Len(parts) |->
            IF isdigit(parts[k])
            THEN [int |-> TRUE, v |-> int_of(parts[k])]
            ELSE [int |-> FALSE, v |-> lower(parts[k])]]

\* a < b for two str, by code points
RECURSIVE str_lt(_, _)
str_lt(a, b) ==
    IF b = <<>> THEN FALSE
    ELSE IF a = <<>> THEN TRUE
    ELSE IF a[1] # b[1] THEN ord(a[1]) < ord(b[1])
    ELSE str_lt(Tail(a), Tail(b))

\* a < b for two keys: list comparison.  The parts of re.split alternate
\* text and digit run, so two elements at one position are both str or both
\* int.
RECURSIVE key_lt(_, _)
key_lt(a, b) ==
    IF b = <<>> THEN FALSE
    ELSE IF a = <<>> THEN TRUE
    ELSE IF a[1] # b[1]
         THEN IF a[1].int THEN a[1].v < b[1].v ELSE str_lt(a[1].v, b[1].v)
    ELSE key_lt(Tail(a), Tail(b))

\* the set get_full_context collects
full_context_set(kb) ==
    {replace(literal, "-", <<>>) :
        literal \in UNION {Range(kb.rules[i].body) : i \in 1..Len(kb.rules)}
                    \ {TrueTok, EmptyTok}}

\* sorted(S, key=natural_sort_key): the sort is stable over the iteration
\* order of the set, which is arbitrary, so elements with equal keys come
\* out in any order
RECURSIVE sorted_by_key(_)
sorted_by_key(S) ==
    IF S = {} THEN {<<>>}
    ELSE UNION {{<<m>> \o t : t \in sorted_by_key(S \ {m})} :
                m \in {x \in S : \A y \in S :
                          ~key_lt(natural_sort_key(y), natural_sort_key(x))}}

get_full_context(kb) == sorted_by_key(full_context_set(kb))

PrudensKnowledgeBase_to_string(kb, sep) ==
    LET pos == active_positions(kb.rules)
    IN  join(sep,
             <<Marker>>
             \o [k \in 1..Len(pos) |->
                    PrudensRule_to_string(kb.rules[pos[k]], IntName(pos[k]))])

\* rules_str before the empty candidates are dropped
candidates(kb_string) ==
    split(strip(lstrip(replace(strip(kb_string), "\n", <<" ">>), Range(Marker))),
          <<";">>)

\* a parser that keeps the empty candidates
rules_str_of_keep_empty(kb_string) ==
    [k \in 1..Len(candidates(kb_string)) |-> strip(candidates(kb_string)[k])]

\* rules_str = [r.strip() for r in rules_str if r]
rules_str_of(kb_string) ==
    LET kept == SelectSeq(candidates(kb_string), LAMBDA r : r # <<>>)
    IN  [k \in 1..Len(kept) |-> strip(kept[k])]

PrudensKnowledgeBase_from_string(kb_string) ==
    IF ~startswith(strip(kb_string), Marker)
    THEN Raise("AssertionError", "KB string must begin with '@KnowledgeBase'!")
    ELSE LET rs == rules_str_of(kb_string)
             parsed == [k \in 1..Len(rs) |->
                          PrudensRule_from_string(rs[k], <<>>, TRUE)]
             bad == {k \in 1..Len(rs) : parsed[k].err # "None"}
         IN  IF bad # {}
             THEN parsed[CHOOSE k \in bad : \A l \in bad : k <= l]
             ELSE Return(PrudensKnowledgeBase(
                             [k \in 1..Len(rs) |-> parsed[k].val]))

\* the "name" of the rule at position i of enumerate(self.rules)
json_rule_name(i) == <<"R">> \o str_int(i - 1)

\* to_prudens_kb_json_object, given the memo after its calls of
\* to_prudens_literal; every literal is the dict object the memo holds
to_prudens_kb_json_object(m, kb) ==
    LET pos == active_positions(kb.rules)
    IN  [type |-> "output",
         kb |-> [k \in 1..Len(pos) |->
                   LET rule == kb.rules[pos[k]]
                   IN  [name |-> json_rule_name(pos[k]),
                        body |-> [j \in 1..Len(rule.body) |-> m[rule.body[j]]],
                        head |-> m[rule.head]]],
         imports |-> "",
         warnings |-> <<>>]

\* the arguments of to_prudens_literal in the order to_prudens_kb_json_object
\* makes the calls
RECURSIVE json_literals(_)
json_literals(rules) ==
    IF rules = <<>> THEN <<>>
    ELSE (IF Head(rules).active
          THEN Head(rules).body \o <<Head(rules).head>> ELSE <<>>)
         \o json_literals(Tail(rules))

\* tuple equality of two rule sequences
rules_eq(a, b) ==
    /\ Len(a) = Len(b)
    /\ \A i \in 1..Len(a) : PrudensRule_eq(a[i], b[i])

\* PrudensKnowledgeBase.__eq__
PrudensKnowledgeBase_eq(kb, obj) ==
    obj.cls = "PrudensKnowledgeBase" /\ rules_eq(kb.rules, obj.rules)

(***************************************************************************)
(* The inputs explored                                                     *)
(***************************************************************************)
tA == <<"a">>
tB == <<"b">>
tC == <<"c">>
tNB == <<"-", "b">>
tND == <<"-", "d">>
tAB == <<"a", "-", "b">>
tNNA == <<"-", "-", "a">>
tDash == <<"-">>
tNTrue == <<"-", "t", "r", "u", "e">>
tUB == <<"B">>
tX2 == <<"x", "2">>
tX10 == <<"x", "1", "0">>
\* tokens the grammar does not provide for: surrounding whitespace, a
\* delimiter inside
tCsp == <<"c", " ">>
tSpC == <<" ", "c">>
tAcB == <<"a", ",", " ", "b">>
tCsemi == <<"c", ";">>
tColons == <<":", ":">>

\* the arguments of to_prudens_literal called directly
LitTokens == {tA, tNB, tAB, tNNA, tDash}

AddedAs == {<<>>, <<"u">>}

RuleBodies ==
    {<<tA, tNB>>, <<tNB, tA>>, <<tA, tA, tNB>>, <<tA, tC>>, <<tAB>>, <<tAcB>>,
     <<tA, tColons>>}

RuleHeads == {tC, tND, tCsp, tSpC, tCsemi}

\* every body with every head, and one rule in every provenance and activity
Rules ==
    {PrudensRule(b, h, <<>>, TRUE) : b \in RuleBodies, h \in RuleHeads}
    \cup {PrudensRule(<<tA, tNB>>, tC, a, act) :
            a \in AddedAs, act \in BOOLEAN}

RuleNames ==
    {NoneName} \cup {IntName(i) : i \in {-1, 0, 1, MaxName}}
    \cup {StrName(n) : n \in {<<"x">>, <<>>, <<" ">>, <<"x", " ", ":", ":", " ", "y">>, <<"a", " ", "b">>, <<"x", " ", ":", ":">>}}

\* the rules knowledge bases are assembled from
KBRules ==
    {PrudensRule(<<tA, tNB>>, tC, <<>>, TRUE),
     PrudensRule(<<tA, tNB>>, tND, <<"u">>, FALSE),
     PrudensRule(<<tNTrue, tAB>>, tC, <<>>, TRUE),
     PrudensRule(<<TrueTok, tX10, tX2>>, tC, <<>>, FALSE),
     PrudensRule(<<EmptyTok, tUB, tNB>>, tND, <<>>, TRUE),
     PrudensRule(<<tA>>, tCsp, <<>>, TRUE)}

RECURSIVE SeqsUpTo(_, _)
SeqsUpTo(S, n) ==
    IF n = 0 THEN {<<>>}
    ELSE LET shorter == SeqsUpTo(S, n - 1)
         IN  shorter \cup {Append(q, x) : q \in shorter, x \in S}

KBs == {PrudensKnowledgeBase(rs) : rs \in SeqsUpTo(KBRules, MaxRules)}

Seps == {NL, <<" ">>}

\* the keyword arguments of PrudensRule.from_string: the defaults, and both
\* given
FromStringKwargs ==
    {[added_as |-> <<>>, active |-> TRUE], [added_as |-> <<"u">>, active |-> FALSE]}

\* rule statements written by hand
sR == <<"R">>
sOK == sR \o RuleSep \o tA \o BodySep \o tNB \o ImpliesSep \o tC \o <<";">>
RuleTexts ==
    {sOK,
     sR \o RuleSep \o tA \o ImpliesSep \o tB,
     <<" ", " ">> \o sOK \o <<";", " ", "\n">>,
     sR \o RuleSep \o tA,
     sR \o ImpliesSep \o tB,
     sR \o tA \o tB,
     <<>>,
     sR \o RuleSep \o tA \o ImpliesSep \o tB \o ImpliesSep \o tC,
     tA \o ImpliesSep \o tB \o RuleSep \o tC,
     RuleSep \o tA \o ImpliesSep \o tB,
     sR \o RuleSep \o tA \o RuleSep \o tA \o ImpliesSep \o tB}

\* knowledge base blocks written by hand
sR1 == <<"R", "1">> \o RuleSep \o tA \o ImpliesSep \o tB \o <<";">>
sR2 == <<"R", "2">> \o RuleSep \o tC \o ImpliesSep \o tND \o <<";">>
KBTexts ==
    {Marker,
     <<" ", " ">> \o Marker \o NL,
     Marker \o <<" ">> \o sR1 \o <<" ">> \o sR2,
     Marker \o NL \o sR1 \o NL \o sR2 \o NL,
     Marker \o <<" ">> \o sR1 \o <<" ", ";", " ">> \o sR2,
     Marker \o <<" ">> \o sR1 \o <<";">> \o sR2,
     Marker \o <<" ">> \o sR1 \o <<" ">>,
     Marker \o <<" ">> \o sR1 \o <<" ", "\t", ";">>,
     sR1,
     <<"K", "B", " ">> \o sR1,
     Marker \o <<" ">> \o sR1 \o <<" ">> \o sR \o RuleSep \o tC \o <<";">>,
     Marker \o <<" ">> \o sR \o RuleSep \o tA \o ImpliesSep \o tB
         \o ImpliesSep \o tC \o <<";">>,
     Marker \o <<"s", "a", "n", "e">> \o RuleSep \o tA \o ImpliesSep \o tB
         \o <<";">>}

\* what a caller may store into a dict it was handed
Mutations == {"sign", "name"}

modified(d, field) ==
    CASE field = "sign" -> [d EXCEPT !.sign = ~d.sign]
      [] field = "name" -> [d EXCEPT !.name = <<"z">>]

\* what a call is made on when it is not made on an instance: the module for
\* to_prudens_literal, the class for a classmethod
Module == [cls |-> "module"]
RuleClass == [cls |-> "type", name |-> "PrudensRule"]
KBClass == [cls |-> "type", name |-> "PrudensKnowledgeBase"]


(***************************************************************************)
(* The state: the object the calls are made on (a rule, a knowledge base,  *)
(* a class for the hand-written inputs of its from_string, the module for  *)
(* to_prudens_literal), the memo of to_prudens_literal, and the last call  *)
(* with its argument and result.                                           *)
(***************************************************************************)
Init ==
    /\ \/ self \in {Module, RuleClass, KBClass}
       \/ self \in Rules
       \/ self \in KBs
    /\ memo = <<>>
    /\ op = "init"
    /\ arg = <<>>
    /\ ret = <<>>
    /\ nmut = 0

\* self.to_string(rule_name) on a rule
RuleToString ==
    /\ self.cls = "PrudensRule"
    /\ \E n \in RuleNames :
          /\ op' = "PrudensRule.to_string"
          /\ arg' = n
          /\ ret' = PrudensRule_to_string(self, n)
    /\ UNCHANGED <<self, memo, nmut>>

\* PrudensRule.from_string on a statement written by hand or on the text
\* the last to_string returned
RuleFromString ==
    /\ \E text \in (IF self = RuleClass THEN RuleTexts ELSE {})
                   \cup (IF op = "PrudensRule.to_string" THEN {ret} ELSE {}),
          kw \in FromStringKwargs :
          /\ op' = "PrudensRule.from_string"
          /\ arg' = [rule_string |-> text, added_as |-> kw.added_as,
                     active |-> kw.active]
          /\ ret' = PrudensRule_from_string(text, kw.added_as, kw.active)
    /\ UNCHANGED <<self, memo, nmut>>

\* self == obj, hash(self) == hash(obj) and len({self, obj}) for two rules
RuleCompare ==
    /\ self.cls = "PrudensRule"
    /\ \E obj \in Rules :
          /\ op' = "PrudensRule.__eq__"
          /\ arg' = obj
          /\ ret' = [eq |-> PrudensRule_eq(self, obj),
                     hash_eq |-> PrudensRule_hash(self) = PrudensRule_hash(obj),
                     set_len |-> set_len(<<self, obj>>)]
    /\ UNCHANGED <<self, memo, nmut>>

\* self.to_string(sep) on a knowledge base
KBToString ==
    /\ self.cls = "PrudensKnowledgeBase"
    /\ \E sep \in Seps :
          /\ op' = "PrudensKnowledgeBase.to_string"
          /\ arg' = sep
          /\ ret' = PrudensKnowledgeBase_to_string(self, sep)
    /\ UNCHANGED <<self, memo, nmut>>

\* PrudensKnowledgeBase.from_string on a block written by hand or on the
\* text the last to_string returned
KBFromString ==
    /\ \E text \in (IF self = KBClass THEN KBTexts ELSE {})
                   \cup (IF op = "PrudensKnowledgeBase.to_string"
                         THEN {ret} ELSE {}) :
          /\ op' = "PrudensKnowledgeBase.from_string"
          /\ arg' = text
          /\ ret' = PrudensKnowledgeBase_from_string(text)
    /\ UNCHANGED <<self, memo, nmut>>

KBNumberOfActiveRules ==
    /\ self.cls = "PrudensKnowledgeBase"
    /\ op' = "PrudensKnowledgeBase.number_of_active_rules"
    /\ arg' = <<>>
    /\ ret' = number_of_active_rules(self)
    /\ UNCHANGED <<self, memo, nmut>>

KBGetFullContext ==
    /\ self.cls = "PrudensKnowledgeBase"
    /\ \E ctx \in get_full_context(self) :
          /\ op' = "PrudensKnowledgeBase.get_full_context"
          /\ arg' = <<>>
          /\ ret' = ctx
    /\ UNCHANGED <<self, memo, nmut>>

\* self.to_prudens_kb_json_object(): the literals of the active rules go
\* through the memo
KBToJson ==
    /\ self.cls = "PrudensKnowledgeBase"
    /\ memo' = memo_after_all(memo, json_literals(self.rules))
    /\ op' = "PrudensKnowledgeBase.to_prudens_kb_json_object"
    /\ arg' = <<>>
    /\ ret' = to_prudens_kb_json_object(memo', self)
    /\ UNCHANGED <<self, nmut>>

\* to_prudens_literal(lit), called directly
ToPrudensLiteral ==
    /\ \E lit \in (IF self = Module THEN LitTokens ELSE {})
                  \cup (IF self.cls = "PrudensKnowledgeBase"
                        THEN {self.rules[i].head : i \in 1..Len(self.rules)}
                        ELSE {}) :
          /\ op' = "to_prudens_literal"
          /\ arg' = lit
          /\ memo' = memo_after(memo, lit)
          /\ ret' = to_prudens_literal(memo, lit)
    /\ UNCHANGED <<self, nmut>>

\* PrudensLiteral.parse_obj(d).to_string() on the dict just returned
LiteralToString ==
    /\ op = "to_prudens_literal"
    /\ op' = "PrudensLiteral.to_string"
    /\ arg' = [lit |-> arg, obj |-> ret]
    /\ ret' = PrudensLiteral_to_string(ret)
    /\ UNCHANGED <<self, memo, nmut>>

\* the literals whose dict a caller holds: those it converted itself, and
\* the heads of the rule objects of the exchange form
held_dicts ==
    IF self.cls = "PrudensKnowledgeBase"
    THEN {self.rules[i].head : i \in 1..Len(self.rules)} \cap DOMAIN memo
    ELSE DOMAIN memo

\* a caller stores into a dict that to_prudens_literal or
\* to_prudens_kb_json_object handed out: the dict is the object the memo holds
CallerModifiesDict ==
    /\ nmut < MaxMut
    /\ \E lit \in held_dicts, field \in Mutations :
          /\ memo' = [memo EXCEPT ![lit] = modified(@, field)]
          /\ op' = "caller_modifies_dict"
          /\ arg' = [lit |-> lit, field |-> field]
          /\ ret' = memo'[lit]
    /\ nmut' = nmut + 1
    /\ UNCHANGED self

Next ==
    \/ RuleToString
    \/ RuleFromString
    \/ RuleCompare
    \/ KBToString
    \/ KBFromString
    \/ KBNumberOfActiveRules
    \/ KBGetFullContext
    \/ KBToJson
    \/ ToPrudensLiteral
    \/ LiteralToString
    \/ CallerModifiesDict

Spec == Init /\ [][Next]_vars


(***************************************************************************)
(* Vocabulary of the properties                                            *)
(***************************************************************************)
Tokens(rule) == Range(rule.body) \cup {rule.head}

\* non-empty and free of the four delimiters of the grammar
DelimiterFree(tok) ==
    /\ tok # <<>>
    /\ ~contains(tok, RuleSep)
    /\ ~contains(tok, ImpliesSep)
    /\ ~contains(tok, BodySep)
    /\ ~contains(tok, <<";">>)

\* non-empty, without whitespace or ";", and not one of the words "::" and
\* "implies"
PlainToken(tok) ==
    /\ tok # <<>>
    /\ \A i \in 1..Len(tok) : tok[i] \notin Whitespace \cup {";"}
    /\ tok \notin {<<":", ":">>, <<"i", "m", "p", "l", "i", "e", "s">>}

\* omitted, an int, or a non-empty str without whitespace
PlainName(n) ==
    \/ n.type \in {"NoneType", "int"}
    \/ /\ n.type = "str"
       /\ n.str # <<>>
       /\ \A i \in 1..Len(n.str) : n.str[i] \notin Whitespace

\* parsed is the sequence of the rules of originals at the positions pos, in
\* order, each equal as a rule and with its body in the same order
SameRulesInOrder(parsed, originals, pos) ==
    /\ Len(parsed) = Len(pos)
    /\ \A k \in 1..Len(pos) :
          /\ PrudensRule_eq(parsed[k], originals[pos[k]])
          /\ parsed[k].body = originals[pos[k]].body

IsKB == self.cls = "PrudensKnowledgeBase"
IsRule == self.cls = "PrudensRule"

(***************************************************************************)
(* C1                                                                      *)
(***************************************************************************)
\* C1: to_string of a knowledge base renders its k-th active rule, in the
\* original order, under the name "R<k>": the names are R1..Rn with
\* n = number_of_active_rules(), whatever inactive rules lie between.
C1_NumberedWithinActive ==
    (op = "PrudensKnowledgeBase.to_string") =>
        LET pos == active_positions(self.rules)
        IN  ret = join(arg,
                       <<Marker>>
                       \o [k \in 1..number_of_active_rules(self) |->
                              PrudensRule_to_string(self.rules[pos[k]],
                                                    IntName(k))])

(***************************************************************************)
(* C2                                                                      *)
(***************************************************************************)
\* C2: the "kb" of the exchange form has one rule object per active rule, in
\* the original order, the k-th of them named "R<k>" (k from 1), which is the
\* name the rule has in to_string.
C2_JsonNamedWithinActive ==
    (op = "PrudensKnowledgeBase.to_prudens_kb_json_object") =>
        /\ Len(ret.kb) = number_of_active_rules(self)
        /\ \A k \in 1..Len(ret.kb) : ret.kb[k].name = <<"R">> \o str_int(k)

(***************************************************************************)
(* C3                                                                      *)
(***************************************************************************)
RoundTripsAsRule ==
    /\ ret.err = "None"
    /\ PrudensRule_eq(ret.val, self)
    /\ ret.val.body = self.body

RoundTripsAsKB ==
    /\ ret.err = "None"
    /\ SameRulesInOrder(ret.val.rules, self.rules, active_positions(self.rules))
    /\ (\A i \in 1..Len(self.rules) : self.rules[i].active)
          => PrudensKnowledgeBase_eq(ret.val, self)

\* C4 as claimed: a knowledge base whose rules have non-empty, delimiter-free
\* tokens, rendered by to_string(), parses back to exactly its active rules
\* in order, and to an equal knowledge base when all its rules are active.
C4_KBRoundTripDelimiterFree ==
    (/\ op = "PrudensKnowledgeBase.from_string"
     /\ IsKB
     /\ \A i \in 1..Len(self.rules) :
           \A tok \in Tokens(self.rules[i]) : DelimiterFree(tok)
     /\ arg = PrudensKnowledgeBase_to_string(self, NL))
        => RoundTripsAsKB

\* C4 as amended: the same for a knowledge base whose tokens are non-empty,
\* hold no whitespace and no ";" and are not the words "::" or "implies".
C4_KBRoundTripPlain ==
    (/\ op = "PrudensKnowledgeBase.from_string"
     /\ IsKB
     /\ \A i \in 1..Len(self.rules) :
           \A tok \in Tokens(self.rules[i]) : PlainToken(tok)
     /\ arg = PrudensKnowledgeBase_to_string(self, NL))
        => RoundTripsAsKB

C4_Witness ==
    /\ op = "PrudensKnowledgeBase.from_string"
    /\ IsKB
    /\ Len(self.rules) = 2
    /\ ~self.rules[1].active
    /\ self.rules[2].active
    /\ \A i \in 1..Len(self.rules) :
          \A tok \in Tokens(self.rules[i]) : PlainToken(tok)
    /\ arg = PrudensKnowledgeBase_to_string(self, NL)
    /\ RoundTripsAsKB
    /\ Len(ret.val.rules) = 1

(***************************************************************************)
(* C5                                                                      *)
(***************************************************************************)
\* C5: for a token with at most one leading "-", to_prudens_literal gives the
\* token without that "-" as the name and sign = (no leading "-"), and
\* rendering the literal gives the token back.  (Stated for calls no caller
\* modification precedes.)
C5_SignRoundTrip ==
    /\ (/\ op = "to_prudens_literal"
        /\ nmut = 0
        /\ ~startswith(arg, <<"-", "-">>))
          => /\ ret.name = (IF startswith(arg, <<"-">>) THEN Tail(arg) ELSE arg)
             /\ ret.sign = ~startswith(arg, <<"-">>)
    /\ (/\ op = "PrudensLiteral.to_string"
        /\ nmut = 0
        /\ ~startswith(arg.lit, <<"-", "-">>))
          => ret = arg.lit

(***************************************************************************)
(* C6                                                                      *)
(***************************************************************************)
\* C6: two rules are equal iff their heads are equal and their bodies are
\* equal as sets, and two equal rules have the same hash, so that a set
\* holding both has one element.
C6_HashConsistentWithEq ==
    (op = "PrudensRule.__eq__") =>
        /\ ret.eq <=> (self.head = arg.head
                        /\ Range(self.body) = Range(arg.body))
        /\ ret.eq => ret.hash_eq
        /\ ret.eq => ret.set_len = 1

(***************************************************************************)
(* C7                                                                      *)
(***************************************************************************)
SignStripped(tok) == IF startswith(tok, <<"-">>) THEN Tail(tok) ELSE tok

\* C7: get_full_context returns a duplicate-free list in natural order of
\* exactly the sign-stripped names of the body tokens of all rules, less
\* "true" and "empty"; no element is "true" or "empty" or starts with "-".
C7_FullContext ==
    (op = "PrudensKnowledgeBase.get_full_context") =>
        /\ \A i, j \in 1..Len(ret) : i # j => ret[i] # ret[j]
        /\ \A i, j \in 1..Len(ret) :
              i < j => ~key_lt(natural_sort_key(ret[j]), natural_sort_key(ret[i]))
        /\ Range(ret) =
              {SignStripped(tok) :
                  tok \in UNION {Range(self.rules[i].body) :
                                    i \in 1..Len(self.rules)}}
              \ {TrueTok, EmptyTok}
        /\ TrueTok \notin Range(ret)
        /\ EmptyTok \notin Range(ret)
        /\ \A i \in 1..Len(ret) : ~startswith(ret[i], <<"-">>)

(***************************************************************************)
(* C8                                                                      *)
(***************************************************************************)
HasBothDelimiters(s) == contains(s, RuleSep) /\ contains(s, ImpliesSep)

\* the candidates of a block that are not blank, trimmed
Statements(kb_string) ==
    LET cs == candidates(kb_string)
        kept == SelectSeq(cs, LAMBDA c : strip(c) # <<>>)
    IN  [k \in 1..Len(kept) |-> strip(kept[k])]

\* C8: PrudensRule.from_string fails with the malformed-rule error for a
\* statement lacking " :: " or " implies ", and parses every statement that
\* holds both; PrudensKnowledgeBase.from_string fails with the
\* malformed-block error for a text not starting with the marker, fails as a
\* whole when a statement is malformed, and no call fails in another way.
C8_TwoErrorKinds ==
    /\ (op = "PrudensRule.from_string") =>
          /\ ~HasBothDelimiters(arg.rule_string) => ret.err = "AssertionError"
          /\ HasBothDelimiters(arg.rule_string) => ret.err = "None"
    /\ (op = "PrudensKnowledgeBase.from_string") =>
          /\ ~startswith(strip(arg), Marker) =>
                /\ ret.err = "AssertionError"
                /\ ret.msg = "KB string must begin with '@KnowledgeBase'!"
          /\ (/\ startswith(strip(arg), Marker)
              /\ \E k \in 1..Len(Statements(arg)) :
                    ~HasBothDelimiters(Statements(arg)[k]))
                => (ret.err = "AssertionError" /\ ret.msg = "")
          /\ ret.err \in {"None", "AssertionError"}

(***************************************************************************)
(* C9                                                                      *)
(***************************************************************************)
\* C9: a block that starts with the marker and whose non-blank candidates
\* are all well-formed statements parses to one rule per non-blank
\* candidate, in order, also when blank candidates lie between or after them.
C9_BlankCandidatesDropped ==
    (/\ op = "PrudensKnowledgeBase.from_string"
     /\ startswith(strip(arg), Marker)
     /\ \A k \in 1..Len(Statements(arg)) :
           PrudensRule_from_string(Statements(arg)[k], <<>>, TRUE).err = "None")
        => /\ ret.err = "None"
           /\ ret.val.rules =
                 [k \in 1..Len(Statements(arg)) |->
                    PrudensRule_from_string(Statements(arg)[k], <<>>, TRUE).val]

(***************************************************************************)
(* C10                                                                     *)
(***************************************************************************)
\* C10: whatever calls and caller modifications came before,
\* to_prudens_literal(t) returns what the uncached computation gives: name
\* and sign fixed by t, the metadata at their defaults.
C10_MemoNotObservable ==
    /\ \A t \in DOMAIN memo \cup LitTokens :
          to_prudens_literal(memo, t) = to_prudens_literal_uncached(t)
    /\ (op = "to_prudens_literal") => ret = to_prudens_literal_uncached(arg)

=============================================================================
